---- MODULE Spec2Model ----
(***************************************************************************)
(* Model of the ShopHub admin shell host: AdminHome, RemoteErrorBoundary   *)
(* and the React.lazy remote handles (src/theme/theme.js), and the entry   *)
(* point that renders the app under React.StrictMode.                      *)
(*                                                                         *)
(* HostState (selected, cartItems, wishlistItems) lives in AdminHome.      *)
(* Every remote module has one React.lazy handle (module level, created    *)
(* once) and, while it is in the renderable set, one RemoteErrorBoundary   *)
(* instance.  Every handler is modelled together with the re-render that   *)
(* React performs after its state update.  Quantities are numbers; thrown  *)
(* values are truthy (an Error with a message, or another value).          *)
(***************************************************************************)
EXTENDS Integers, Sequences, FiniteSets, TLC

VARIABLES
    root,           \* "idle" before createRoot().render, "mounted", "unmounted" after an uncaught error
    selected,       \* AdminHome.selected: array of module ids
    cartItems,      \* AdminHome.cartItems: array of {id, price, quantity}
    wishlistItems,  \* AdminHome.wishlistItems: array of {id, price, addedBy}
    lazy,           \* per remote handle: the React.lazy payload {status, result}
    loads,          \* per remote handle: how many times its import() factory ran
    boundary,       \* per module key: the RemoteErrorBoundary instance {mounted, error}
    reports,        \* per module key: the componentDidCatch calls of the current instance
    zipy,           \* window.zipy: "absent", "ok" or "throws" (logException fails)
    callbacks,      \* number of callback props invoked by rendered remotes so far
    processEnv,     \* webpack config: process.env, the remote URL overrides (Undefined when unset)
    argv,           \* webpack config: the CLI arguments, {mode}
    config          \* webpack config: what module.exports returned, {built} before it ran

vars == <<root, selected, cartItems, wishlistItems, lazy, loads, boundary, reports, zipy, callbacks,
          processEnv, argv, config>>

webpack == <<processEnv, argv, config>>

(***************************************************************************)
(* Bounds of the model.                                                    *)
(***************************************************************************)
MaxProducts == 2
MaxQuantity == 2
MaxCallbacks == 1
MaxSelected == 2

ProductIds == 1..MaxProducts
Products == {[id |-> i, price |-> 10 * i] : i \in ProductIds}
Quantities == 0..MaxQuantity

(***************************************************************************)
(* Generic array helpers (Array.prototype.find / some / map / filter).     *)
(***************************************************************************)
Range(s) == {s[i] : i \in DOMAIN s}

RECURSIVE FilterSeq(_, _)
FilterSeq(s, keep) ==
    IF s = <<>> THEN <<>>
    ELSE IF Head(s) \in keep THEN <<Head(s)>> \o FilterSeq(Tail(s), keep)
         ELSE FilterSeq(Tail(s), keep)

SomeId(prev, id) == \E i \in DOMAIN prev : prev[i].id = id

(***************************************************************************)
(* HostState transitions of AdminHome.                                     *)
(***************************************************************************)
adminUser == [name |-> "Admin", email |-> "admin@shophub.dev", role |-> "ADMIN"]

NoQuantity == -1

\* x.quantity ?? 1
QuantityOrOne(q) == IF q = NoQuantity THEN 1 ELSE q

addToCartAlwaysAppends(prev, product) ==
    Append(prev, [id |-> product.id, price |-> product.price, quantity |-> 1])

addToCart(prev, product) ==
    IF SomeId(prev, product.id)
    THEN [i \in DOMAIN prev |->
            IF prev[i].id = product.id
            THEN [prev[i] EXCEPT !.quantity = QuantityOrOne(prev[i].quantity) + 1]
            ELSE prev[i]]
    ELSE Append(prev, [id |-> product.id, price |-> product.price, quantity |-> 1])

removeFromCart(prev, productId) ==
    FilterSeq(prev, {x \in Range(prev) : x.id # productId})

updateQuantityAlsoInserts(prev, productId, quantity) ==
    IF SomeId(prev, productId)
    THEN [i \in DOMAIN prev |->
            IF prev[i].id = productId THEN [prev[i] EXCEPT !.quantity = quantity] ELSE prev[i]]
    ELSE Append(prev, [id |-> productId, price |-> 10 * productId, quantity |-> quantity])

updateQuantity(prev, productId, quantity) ==
    [i \in DOMAIN prev |->
        IF prev[i].id = productId THEN [prev[i] EXCEPT !.quantity = quantity] ELSE prev[i]]

clearCart == <<>>

removeFromWishlist(prev, productId) ==
    FilterSeq(prev, {x \in Range(prev) : x.id # productId})

clearWishlist == <<>>

addToWishlistNoCheck(prev, product) ==
    <<[id |-> product.id, price |-> product.price, addedBy |-> adminUser]>> \o prev

addToWishlist(prev, product) ==
    IF SomeId(prev, product.id) THEN prev
    ELSE <<[id |-> product.id, price |-> product.price, addedBy |-> adminUser]>> \o prev

isInWishlist(items, productId) == SomeId(items, productId)

(***************************************************************************)
(* The remote modules: the always-present Wishlist and the four items of   *)
(* the multi-select.                                                       *)
(***************************************************************************)
WishlistKey == "wishlist"

items == << [id |-> "auth.login", label |-> "Auth -> Login"],
            [id |-> "catalog.products", label |-> "Catalog -> Products"],
            [id |-> "checkout.cart", label |-> "Checkout -> Cart"],
            [id |-> "account.profile", label |-> "Account -> Profile"] >>

ItemIds == {items[i].id : i \in DOMAIN items}
ModuleKeys == {WishlistKey} \cup ItemIds

NoItem == [id |-> "", label |-> ""]

\* byId.get(id): the item, or undefined
ById(id) == IF id \in ItemIds THEN CHOOSE x \in Range(items) : x.id = id ELSE NoItem

selectedItemsKeepsUnknown(sel) == [i \in DOMAIN sel |-> [id |-> sel[i], label |-> sel[i]]]

\* selected.map((id) => byId.get(id)).filter(Boolean)
selectedItems(sel) ==
    LET mapped == [i \in DOMAIN sel |-> ById(sel[i])]
    IN  FilterSeq(mapped, Range(mapped) \ {NoItem})

Title(k) == IF k = WishlistKey THEN "Wishlist" ELSE ById(k).label

RenderableOnlySelected(sel) == {x.id : x \in Range(selectedItems(sel))}

\* the keys of the boundaries AdminHome's render returns
Renderable(sel) == {WishlistKey} \cup {x.id : x \in Range(selectedItems(sel))}

\* callback props handed to each remote (the render functions of items, and <RemoteWishlist>)
AddToCartCallers == {WishlistKey, "catalog.products"}
CartEditors == {"checkout.cart"}
AddToWishlistCallers == {"catalog.products"}
WishlistEditors == {WishlistKey, "checkout.cart"}

(***************************************************************************)
(* The multi-select.  A string value is a sequence of tokens, each a       *)
(* module id or the separator ",".                                         *)
(***************************************************************************)
Comma == ","

RECURSIVE Join(_)
Join(ids) ==
    IF ids = <<>> THEN <<>>
    ELSE IF Len(ids) = 1 THEN <<ids[1]>>
    ELSE <<ids[1], Comma>> \o Join(Tail(ids))

\* the field read so far as one string ("" when empty)
FieldText(field) == IF field = <<>> THEN "" ELSE field[1]

RECURSIVE SplitFrom(_, _)
SplitFrom(text, field) ==
    IF text = <<>> THEN <<FieldText(field)>>
    ELSE IF Head(text) = Comma THEN <<FieldText(field)>> \o SplitFrom(Tail(text), <<>>)
    ELSE SplitFrom(Tail(text), Append(field, Head(text)))

\* value.split(',')
Split(text) == SplitFrom(text, <<>>)

\* what MUI's multiple Select hands to onChange when one MenuItem is clicked
Toggle(sel, id) ==
    IF id \in Range(sel) THEN FilterSeq(sel, Range(sel) \ {id}) ELSE Append(sel, id)

\* an array after a click, or (autofill) the stringified value
SelectValues(sel) ==
    {[type |-> "array", list |-> Toggle(sel, id), text |-> <<>>] : id \in ItemIds}
    \cup {[type |-> "string", list |-> <<>>, text |-> Join(Toggle(sel, id))] : id \in ItemIds}

onChangeDropsLast(value) ==
    IF value.type = "string" THEN Split(value.text) ELSE SubSeq(value.list, 1, Len(value.list) - 1)

\* typeof value === 'string' ? value.split(',') : value
onChangeValue(value) == IF value.type = "string" THEN Split(value.text) ELSE value.list

(***************************************************************************)
(* Thrown values.  message is the .message property (Undefined when the    *)
(* thrown value is not an Error), str is String(value).                    *)
(***************************************************************************)
Undefined == "undefined"
NoError == [message |-> Undefined, str |-> "null"]
LoadError == [message |-> "Loading script failed", str |-> "Error: Loading script failed"]
RenderErrors == { [message |-> "render failed", str |-> "Error: render failed"],
                  [message |-> Undefined, str |-> "thrown string"] }
ZipyStates == {"absent", "ok", "throws"}

(***************************************************************************)
(* React.lazy handles.                                                     *)
(***************************************************************************)
Uninitialized == [status |-> "uninitialized", result |-> NoError]

MaterializeAlwaysLoads(lz) == [status |-> "pending", result |-> NoError]

\* reading the lazy payload during render: the first read calls the import() factory
Materialize(lz) ==
    IF lz.status = "uninitialized" THEN [status |-> "pending", result |-> NoError] ELSE lz

LoadsStarted(lz) == IF lz.status = "uninitialized" THEN 1 ELSE 0

\* main.jsx renders <App /> under React.StrictMode: render-phase work runs twice
StrictMode == TRUE

(***************************************************************************)
(* RemoteErrorBoundary.                                                    *)
(***************************************************************************)
Unmounted == [mounted |-> FALSE, error |-> NoError]

\* constructor: this.state = { error: null }
NewBoundary == [mounted |-> TRUE, error |-> NoError]

getDerivedStateFromErrorDropsError(b, error) == b

getDerivedStateFromError(b, error) == [b EXCEPT !.error = error]

componentDidCatchSilent(title, error, z) ==
    [console |-> <<>>, zipyCalled |-> FALSE, threw |-> FALSE]

\* console.error(..., title, error); if (window.zipy) window.zipy.logException(error)
componentDidCatch(title, error, z) ==
    [console |-> <<title, error>>, zipyCalled |-> z # "absent", threw |-> z = "throws"]

BoundaryRenderAlwaysChildren(b) == "children"

\* if (!this.state.error) return this.props.children; else the fallback Paper
BoundaryRender(b) == IF b.error = NoError THEN "children" ELSE "fallback"

DescribeStr(error) == error.str

\* String(this.state.error?.message ?? this.state.error)
Describe(error) == IF error.message # Undefined THEN error.message ELSE error.str

\* the fallback Paper: "<title> crashed" and the description
Fallback(title, b) == [heading |-> title, text |-> Describe(b.error)]

(***************************************************************************)
(* One render of AdminHome followed by React's commit.                     *)
(***************************************************************************)
\* the lazy payload after the render phase read it (twice under StrictMode)
RenderLazy(lz) == IF StrictMode THEN Materialize(Materialize(lz)) ELSE Materialize(lz)

RenderLoads(lz) ==
    LoadsStarted(lz) + (IF StrictMode THEN LoadsStarted(Materialize(lz)) ELSE 0)

\* the boundary catches `error` thrown below it: getDerivedStateFromError in the
\* render phase, componentDidCatch once in the commit phase
Catch(k, b, rep, error, z) ==
    LET call == componentDidCatch(Title(k), error, z)
    IN  [boundary |-> getDerivedStateFromError(b, error),
         reports  |-> Append(rep, call),
         threw    |-> call.threw]

\* <RemoteErrorBoundary key=k><Section><Suspense>{lazy component}</Suspense></Section></RemoteErrorBoundary>
RenderSlot(k, b, rep, lz, z) ==
    LET b0   == IF b.mounted THEN b ELSE NewBoundary
        rep0 == IF b.mounted THEN rep ELSE <<>>
        lz1  == RenderLazy(lz)
    IN  IF BoundaryRender(b0) = "fallback"
        THEN [boundary |-> b0, reports |-> rep0, threw |-> FALSE, lazy |-> lz, loads |-> 0]
        ELSE IF lz1.status = "rejected"
        THEN Catch(k, b0, rep0, lz1.result, z) @@ [lazy |-> lz1, loads |-> RenderLoads(lz)]
        ELSE [boundary |-> b0, reports |-> rep0, threw |-> FALSE,
              lazy |-> lz1, loads |-> RenderLoads(lz)]

\* what the slot of module k shows
Shows(k, b, lz) ==
    IF ~b.mounted THEN "nothing"
    ELSE IF BoundaryRender(b) = "fallback" THEN "fallback"
    ELSE IF lz.status = "resolved" THEN "content"
    ELSE "loader"

SlotAfterRendersAll(k, rend, lz, z) == RenderSlot(k, boundary[k], reports[k], lz[k], z)

SlotAfter(k, rend, lz, z) ==
    IF k \in rend
    THEN RenderSlot(k, boundary[k], reports[k], lz[k], z)
    ELSE [boundary |-> Unmounted, reports |-> <<>>, threw |-> FALSE, lazy |-> lz[k], loads |-> 0]

KeySeq == <<"wishlist", "auth.login", "catalog.products", "checkout.cart", "account.profile">>
KeyIdx(k) == CHOOSE i \in DOMAIN KeySeq : KeySeq[i] = k

\* the slots of one render pass, in KeySeq order
RECURSIVE RenderSlots(_, _, _, _)
RenderSlots(n, rend, lz, z) ==
    IF n = 0 THEN <<>>
    ELSE Append(RenderSlots(n - 1, rend, lz, z), SlotAfter(KeySeq[n], rend, lz, z))

\* an error no boundary catches: React unmounts the whole root, AdminHome's state goes with it
RootUnmounts ==
    /\ root' = "unmounted"
    /\ boundary' = [k \in ModuleKeys |-> Unmounted]
    /\ reports' = [k \in ModuleKeys |-> <<>>]
    /\ selected' = <<>>
    /\ cartItems' = <<>>
    /\ wishlistItems' = <<>>

\* AdminHome re-renders with the given state; an error thrown by componentDidCatch
\* is caught by no boundary above RemoteErrorBoundary
Commit(sel, cart, wish, lz) ==
    \E out \in {RenderSlots(Len(KeySeq), Renderable(sel), lz, zipy)} :
        /\ lazy' = [k \in ModuleKeys |-> out[KeyIdx(k)].lazy]
        /\ loads' = [k \in ModuleKeys |-> loads[k] + out[KeyIdx(k)].loads]
        /\ IF \E i \in DOMAIN out : out[i].threw
           THEN RootUnmounts
           ELSE /\ root' = "mounted"
                /\ boundary' = [k \in ModuleKeys |-> out[KeyIdx(k)].boundary]
                /\ reports' = [k \in ModuleKeys |-> out[KeyIdx(k)].reports]
                /\ selected' = sel
                /\ cartItems' = cart
                /\ wishlistItems' = wish

(***************************************************************************)
(* webpack.config.js: the Module Federation remotes.                       *)
(***************************************************************************)
RemoteNames == {"auth", "catalog", "checkout", "wishlist", "account"}

EnvVar(r) ==
    CASE r = "auth" -> "SHOPHUB_AUTH_REMOTE_URL"
      [] r = "catalog" -> "SHOPHUB_CATALOG_REMOTE_URL"
      [] r = "checkout" -> "SHOPHUB_CHECKOUT_REMOTE_URL"
      [] r = "wishlist" -> "SHOPHUB_WISHLIST_REMOTE_URL"
      [] r = "account" -> "SHOPHUB_ACCOUNT_REMOTE_URL"

EnvVars == {EnvVar(r) : r \in RemoteNames}

ProdUrl(r) ==
    CASE r = "auth" -> "https://shophub-auth-2.netlify.app/remoteEntry.js"
      [] r = "catalog" -> "https://shophub-catalog-2.netlify.app/remoteEntry.js"
      [] r = "checkout" -> "https://shophub-checkout-2.netlify.app/remoteEntry.js"
      [] r = "wishlist" -> "https://shophub-wishlist-2.netlify.app/remoteEntry.js"
      [] r = "account" -> "https://shophub-account-2.netlify.app/remoteEntry.js"

DevUrl(r) ==
    CASE r = "auth" -> "http://localhost:5174/remoteEntry.js"
      [] r = "catalog" -> "http://localhost:5175/remoteEntry.js"
      [] r = "checkout" -> "http://localhost:5176/remoteEntry.js"
      [] r = "wishlist" -> "http://localhost:5177/remoteEntry.js"
      [] r = "account" -> "http://localhost:5178/remoteEntry.js"

EmptyString == ""

\* What an environment variable can hold: nothing, the empty string, a URL.
EnvValues == {Undefined, EmptyString, "https://cdn.example.test/remoteEntry.js"}

\* --mode production, --mode development, or no --mode at all.
Modes == {"production", "development", Undefined}

isProd(args) == args.mode = "production"

\* a ?? b: b only when a is null or undefined.
NullishCoalesce(a, b) == IF a = Undefined THEN b ELSE a

RemoteUrl(r, env, args) ==
    NullishCoalesce(env[EnvVar(r)], IF isProd(args) THEN ProdUrl(r) ELSE DevUrl(r))

\* `name@${url}`: the pieces of the resulting string, an empty url adds none.
RemoteEntry(r, url) == <<r, "@">> \o (IF url = EmptyString THEN <<>> ELSE <<url>>)

mfRemotes(env, args) == [r \in RemoteNames |-> RemoteEntry(r, RemoteUrl(r, env, args))]

NotBuilt == [built |-> FALSE]

moduleExports(env, args) ==
    [built |-> TRUE,
     mode |-> IF isProd(args) THEN "production" ELSE "development",
     remotes |-> mfRemotes(env, args)]

\* The endpoint Module Federation reads out of "name@endpoint".
Endpoint(entry) == IF Len(entry) > 2 THEN entry[3] ELSE EmptyString

\* The bundle the running host was built from: a production build without
\* overrides.  The host never reads the remotes' URLs, a load just settles.
Deployed ==
    /\ processEnv = [v \in EnvVars |-> Undefined]
    /\ argv = [mode |-> "production"]
    /\ config = moduleExports(processEnv, argv)

(***************************************************************************)
(* Initial state: App.jsx evaluated, nothing rendered yet.                 *)
(***************************************************************************)
Init ==
    /\ root = "idle"
    /\ selected = <<>>
    /\ cartItems = <<>>
    /\ wishlistItems = <<>>
    /\ lazy = [k \in ModuleKeys |-> Uninitialized]
    /\ loads = [k \in ModuleKeys |-> 0]
    /\ boundary = [k \in ModuleKeys |-> Unmounted]
    /\ reports = [k \in ModuleKeys |-> <<>>]
    /\ zipy \in ZipyStates
    /\ callbacks = 0
    /\ Deployed

(***************************************************************************)
(* Steps.                                                                  *)
(***************************************************************************)
\* main.jsx start(): createRoot(...).render(<StrictMode><App /></StrictMode>)
Start ==
    /\ root = "idle"
    /\ Commit(<<>>, <<>>, <<>>, lazy)
    /\ UNCHANGED <<zipy, callbacks, webpack>>

\* Select onChange
SelectOnChange ==
    /\ root = "mounted"
    /\ \E value \in SelectValues(selected) :
          /\ Len(onChangeValue(value)) <= MaxSelected
          /\ Commit(onChangeValue(value), cartItems, wishlistItems, lazy)
    /\ UNCHANGED <<zipy, callbacks, webpack>>

\* the import() promise of a handle fulfils
LoadResolves(k) ==
    /\ lazy[k].status = "pending"
    /\ LET lz == [lazy EXCEPT ![k] = [status |-> "resolved", result |-> NoError]]
       IN  IF root = "mounted"
           THEN Commit(selected, cartItems, wishlistItems, lz)
           ELSE /\ lazy' = lz
                /\ UNCHANGED <<root, selected, cartItems, wishlistItems, loads, boundary, reports>>
    /\ UNCHANGED <<zipy, callbacks, webpack>>

\* the import() promise of a handle rejects
LoadRejects(k) ==
    /\ lazy[k].status = "pending"
    /\ LET lz == [lazy EXCEPT ![k] = [status |-> "rejected", result |-> LoadError]]
       IN  IF root = "mounted"
           THEN Commit(selected, cartItems, wishlistItems, lz)
           ELSE /\ lazy' = lz
                /\ UNCHANGED <<root, selected, cartItems, wishlistItems, loads, boundary, reports>>
    /\ UNCHANGED <<zipy, callbacks, webpack>>

\* a loaded remote component throws while it renders
RemoteRenderThrows(k, error) ==
    /\ root = "mounted"
    /\ Shows(k, boundary[k], lazy[k]) = "content"
    /\ LET c == Catch(k, boundary[k], reports[k], error, zipy)
       IN  IF c.threw
           THEN RootUnmounts
           ELSE /\ boundary' = [boundary EXCEPT ![k] = c.boundary]
                /\ reports' = [reports EXCEPT ![k] = c.reports]
                /\ UNCHANGED <<root, selected, cartItems, wishlistItems>>
    /\ UNCHANGED <<lazy, loads, zipy, callbacks, webpack>>

(***************************************************************************)
(* The callback props: each applies its state transition and AdminHome     *)
(* re-renders.                                                             *)
(***************************************************************************)
CanIncrement(prev, id) == \A i \in DOMAIN prev : prev[i].id = id => prev[i].quantity < MaxQuantity

AddToCartHandler(product) ==
    /\ root = "mounted"
    /\ CanIncrement(cartItems, product.id)
    /\ Commit(selected, addToCart(cartItems, product), wishlistItems, lazy)
    /\ UNCHANGED <<zipy, webpack>>

RemoveFromCartHandler(productId) ==
    /\ root = "mounted"
    /\ Commit(selected, removeFromCart(cartItems, productId), wishlistItems, lazy)
    /\ UNCHANGED <<zipy, webpack>>

UpdateQuantityHandler(productId, quantity) ==
    /\ root = "mounted"
    /\ Commit(selected, updateQuantity(cartItems, productId, quantity), wishlistItems, lazy)
    /\ UNCHANGED <<zipy, webpack>>

ClearCartHandler ==
    /\ root = "mounted"
    /\ Commit(selected, clearCart, wishlistItems, lazy)
    /\ UNCHANGED <<zipy, webpack>>

AddToWishlistHandler(product) ==
    /\ root = "mounted"
    /\ Commit(selected, cartItems, addToWishlist(wishlistItems, product), lazy)
    /\ UNCHANGED <<zipy, webpack>>

RemoveFromWishlistHandler(productId) ==
    /\ root = "mounted"
    /\ Commit(selected, cartItems, removeFromWishlist(wishlistItems, productId), lazy)
    /\ UNCHANGED <<zipy, webpack>>

ClearWishlistHandler ==
    /\ root = "mounted"
    /\ Commit(selected, cartItems, clearWishlist, lazy)
    /\ UNCHANGED <<zipy, webpack>>

\* a remote that shows its content invokes one of the callback props it was given
Invokes(callers) ==
    /\ callbacks < MaxCallbacks
    /\ callbacks' = callbacks + 1
    /\ \E k \in callers : Shows(k, boundary[k], lazy[k]) = "content"

RemoteAddToCart == Invokes(AddToCartCallers) /\ \E p \in Products : AddToCartHandler(p)
RemoteRemoveFromCart == Invokes(CartEditors) /\ \E id \in ProductIds : RemoveFromCartHandler(id)
RemoteUpdateQuantity ==
    Invokes(CartEditors) /\ \E id \in ProductIds, q \in Quantities : UpdateQuantityHandler(id, q)
RemoteClearCart == Invokes(CartEditors) /\ ClearCartHandler
RemoteAddToWishlist == Invokes(AddToWishlistCallers) /\ \E p \in Products : AddToWishlistHandler(p)
RemoteRemoveFromWishlist ==
    Invokes(WishlistEditors) /\ \E id \in ProductIds : RemoveFromWishlistHandler(id)
RemoteClearWishlist == Invokes(WishlistEditors) /\ ClearWishlistHandler

LoadSettles == \E k \in ModuleKeys : LoadResolves(k) \/ LoadRejects(k)
RenderThrows == \E k \in ModuleKeys, e \in RenderErrors : RemoteRenderThrows(k, e)

Next ==
    \/ Start
    \/ SelectOnChange
    \/ LoadSettles
    \/ RenderThrows
    \/ RemoteAddToCart
    \/ RemoteRemoveFromCart
    \/ RemoteUpdateQuantity
    \/ RemoteClearCart
    \/ RemoteAddToWishlist
    \/ RemoteRemoveFromWishlist
    \/ RemoteClearWishlist

Spec == Init /\ [][Next]_vars

(***************************************************************************)
(* The HostState transitions alone, under every sequence of calls.         *)
(***************************************************************************)
AddToCart == \E p \in Products : AddToCartHandler(p) /\ UNCHANGED callbacks
RemoveFromCart == \E id \in ProductIds : RemoveFromCartHandler(id) /\ UNCHANGED callbacks
UpdateQuantity ==
    \E id \in ProductIds, q \in Quantities : UpdateQuantityHandler(id, q) /\ UNCHANGED callbacks
ClearCart == ClearCartHandler /\ UNCHANGED callbacks
AddToWishlist == \E p \in Products : AddToWishlistHandler(p) /\ UNCHANGED callbacks
RemoveFromWishlist == \E id \in ProductIds : RemoveFromWishlistHandler(id) /\ UNCHANGED callbacks
ClearWishlist == ClearWishlistHandler /\ UNCHANGED callbacks

NextHostState ==
    \/ Start
    \/ AddToCart
    \/ RemoveFromCart
    \/ UpdateQuantity
    \/ ClearCart
    \/ AddToWishlist
    \/ RemoveFromWishlist
    \/ ClearWishlist

SpecHostState == Init /\ [][NextHostState]_vars

(***************************************************************************)
(* The configuration build alone: webpack calls module.exports once, with  *)
(* any environment and any mode, before there is a bundle to run.          *)
(***************************************************************************)
InitBuild ==
    /\ root = "idle"
    /\ selected = <<>>
    /\ cartItems = <<>>
    /\ wishlistItems = <<>>
    /\ lazy = [k \in ModuleKeys |-> Uninitialized]
    /\ loads = [k \in ModuleKeys |-> 0]
    /\ boundary = [k \in ModuleKeys |-> Unmounted]
    /\ reports = [k \in ModuleKeys |-> <<>>]
    /\ zipy = "absent"
    /\ callbacks = 0
    /\ processEnv \in [EnvVars -> EnvValues]
    /\ argv \in [mode : Modes]
    /\ config = NotBuilt

Build ==
    /\ ~config.built
    /\ config' = moduleExports(processEnv, argv)
    /\ UNCHANGED <<root, selected, cartItems, wishlistItems, lazy, loads, boundary, reports,
                   zipy, callbacks, processEnv, argv>>

NextBuild == Build

SpecBuild == InitBuild /\ [][NextBuild]_vars

(***************************************************************************)
(* Observations used by the properties.                                    *)
(***************************************************************************)
NoDuplicateIds(arr) == \A i, j \in DOMAIN arr : i # j => arr[i].id # arr[j].id

\* the quantities recorded for an id: empty when the id is absent
QuantitiesOf(arr, id) == {arr[i].quantity : i \in {j \in DOMAIN arr : arr[j].id = id}}

IdsOf(arr) == [i \in DOMAIN arr |-> arr[i].id]

Rendered == {k \in ModuleKeys : boundary[k].mounted}
RenderedNext == {k \in ModuleKeys : boundary'[k].mounted}

Failed(k) == boundary[k].mounted /\ boundary[k].error # NoError

\* C1: from an empty cart, after any sequence of addToCart, removeFromCart,
\* updateQuantity and clearCart calls the cart holds at most one entry per product id.
C1_CartOneEntryPerId == NoDuplicateIds(cartItems)

C1_Witness ==
    /\ Len(cartItems) = 2
    /\ \E i \in DOMAIN cartItems : cartItems[i].quantity = 2

\* C2: every cart operation has the stated effect on every id, applied to every cart
\* the operations can produce: addToCart appends the product with quantity 1 when its
\* id is absent and otherwise adds 1 to that entry's quantity, updateQuantity replaces
\* the matching entry's quantity and does nothing when the id is absent, removeFromCart
\* deletes the entry, clearCart empties the cart; and addToCart of {id: 1, price: 10}
\* twice on the empty cart gives exactly [{id: 1, price: 10, quantity: 2}].
C2_CartNetEffect ==
    /\ \A p \in Products :
          LET after == addToCart(cartItems, p)
          IN  /\ QuantitiesOf(cartItems, p.id) = {} =>
                    /\ Len(after) = Len(cartItems) + 1
                    /\ SubSeq(after, 1, Len(cartItems)) = cartItems
                    /\ after[Len(after)] = [id |-> p.id, price |-> p.price, quantity |-> 1]
              /\ QuantitiesOf(cartItems, p.id) # {} =>
                    /\ IdsOf(after) = IdsOf(cartItems)
                    /\ QuantitiesOf(after, p.id) = {n + 1 : n \in QuantitiesOf(cartItems, p.id)}
              /\ \A id \in ProductIds \ {p.id} :
                    QuantitiesOf(after, id) = QuantitiesOf(cartItems, id)
    /\ \A target \in ProductIds, q \in Quantities :
          LET after == updateQuantity(cartItems, target, q)
          IN  /\ IdsOf(after) = IdsOf(cartItems)
              /\ QuantitiesOf(cartItems, target) = {} => after = cartItems
              /\ QuantitiesOf(cartItems, target) # {} => QuantitiesOf(after, target) = {q}
              /\ \A id \in ProductIds \ {target} :
                    QuantitiesOf(after, id) = QuantitiesOf(cartItems, id)
    /\ \A target \in ProductIds :
          LET after == removeFromCart(cartItems, target)
          IN  /\ QuantitiesOf(after, target) = {}
              /\ \A id \in ProductIds \ {target} :
                    QuantitiesOf(after, id) = QuantitiesOf(cartItems, id)
    /\ clearCart = <<>>
    /\ LET p == [id |-> 1, price |-> 10]
       IN  addToCart(addToCart(<<>>, p), p) = <<[id |-> 1, price |-> 10, quantity |-> 2]>>

C2_Witness == cartItems = <<[id |-> 1, price |-> 10, quantity |-> 2]>>

\* C3: the wishlist holds at most one entry per product id, and addToWishlist of a
\* product whose id is already present returns the wishlist unchanged.
C3_WishlistSetByIdentity ==
    /\ NoDuplicateIds(wishlistItems)
    /\ \A p \in Products :
          SomeId(wishlistItems, p.id) => addToWishlist(wishlistItems, p) = wishlistItems

C3_Witness == Len(wishlistItems) = 2

ShowsNow(k) == Shows(k, boundary[k], lazy[k])
ShowsNext(k) == Shows(k, boundary'[k], lazy'[k])

\* the load or the render of module k fails under its mounted boundary
ChildFails(k) ==
    \/ boundary[k].mounted /\ LoadRejects(k)
    \/ \E e \in RenderErrors : RemoteRenderThrows(k, e)

\* C4: when the load or the render of one remote module fails, only that module's
\* boundary enters the failed state and shows its fallback; every sibling boundary
\* keeps its state, a sibling that shows its content keeps showing it, and the host
\* with its selector stays mounted.
C4_FailureContained ==
    [][\A k \in ModuleKeys :
          ChildFails(k) =>
              /\ root' = "mounted"
              /\ selected' = selected
              /\ ShowsNext(k) = "fallback"
              /\ \A j \in ModuleKeys \ {k} :
                    /\ boundary'[j] = boundary[j]
                    /\ ShowsNow(j) = "content" => ShowsNext(j) = "content"]_vars


\* C5: a boundary instance is Healthy (no error) or Failed (an error); a Failed
\* instance keeps its state for as long as it stays mounted, never shows its child
\* again, and shows a fallback with its label and the error's description (the
\* message of an Error, the string form of any other thrown value).
C5_FailedIsTerminal ==
    /\ [](\A k \in ModuleKeys :
            /\ boundary[k].mounted =>
                  (BoundaryRender(boundary[k]) = "children" <=> boundary[k].error = NoError)
            /\ Failed(k) =>
                  /\ ShowsNow(k) = "fallback"
                  /\ Fallback(Title(k), boundary[k]).heading = Title(k)
                  /\ Fallback(Title(k), boundary[k]).text =
                        (IF boundary[k].error.message = Undefined
                         THEN boundary[k].error.str ELSE boundary[k].error.message))
    /\ [][\A k \in ModuleKeys :
            (Failed(k) /\ boundary'[k].mounted) =>
                /\ boundary'[k] = boundary[k]
                /\ reports'[k] = reports[k]
                /\ ShowsNext(k) = "fallback"]_vars

C5_Witness ==
    \E k \in ItemIds :
        /\ Failed(k)
        /\ boundary[k].error \in RenderErrors
        /\ cartItems # <<>>
        /\ Len(selected) = 2

\* C6: on every contained failure the diagnostics call carries (label, error), and
\* whether window.zipy is absent, works or fails, the host stays mounted and the
\* boundary ends Failed showing its fallback.
C6_ReportingGuarded ==
    [][\A k \in ModuleKeys :
          ChildFails(k) =>
              /\ root' = "mounted"
              /\ boundary'[k].mounted
              /\ boundary'[k].error # NoError
              /\ ShowsNext(k) = "fallback"
              /\ Len(reports'[k]) = Len(reports[k]) + 1
              /\ reports'[k][Len(reports'[k])].console = <<Title(k), boundary'[k].error>>]_vars

\* C7: a boundary instance reports at most once, and a lazy handle runs its import()
\* at most once, although every render reads the handle twice under StrictMode.
C7_AtMostOneReport ==
    \A k \in ModuleKeys : Len(reports[k]) <= 1 /\ loads[k] <= 1

C7_Witness ==
    \E k \in ItemIds :
        /\ Len(reports[k]) = 1
        /\ lazy[k].status = "rejected"
        /\ loads[k] = 1
        /\ callbacks = 1

\* C8: deselecting a module unmounts its boundary, and when the load of an unmounted
\* module settles, the rendered set, every boundary, the reports, the root and
\* HostState are all unchanged.
C8_LateSettleDiscarded ==
    [][\A k \in ItemIds :
          /\ (k \in Range(selected) /\ k \notin Range(selected')) => ~boundary'[k].mounted
          /\ (lazy[k].status = "pending" /\ lazy'[k].status # "pending" /\ ~boundary[k].mounted) =>
                /\ RenderedNext = Rendered
                /\ boundary' = boundary
                /\ reports' = reports
                /\ root' = root
                /\ selected' = selected
                /\ cartItems' = cartItems
                /\ wishlistItems' = wishlistItems]_vars

\* a rejected handle under a live root although window.zipy fails: the rejection came
\* while the module was unmounted
C8_Witness ==
    \E k \in ItemIds :
        /\ zipy = "throws"
        /\ root = "mounted"
        /\ lazy[k].status = "rejected"
        /\ ~boundary[k].mounted
        /\ cartItems # <<>>

\* C9: a selection change leaves the cart, the wishlist, and the boundary and load
\* state of the Wishlist module and of every module that stays selected unchanged.
C9_SelectionChangeFrame ==
    [][SelectOnChange =>
          /\ cartItems' = cartItems
          /\ wishlistItems' = wishlistItems
          /\ \A k \in Rendered :
                (k = WishlistKey \/ k \in Range(selected')) =>
                    /\ boundary'[k] = boundary[k]
                    /\ reports'[k] = reports[k]
                    /\ lazy'[k] = lazy[k]]_vars

\* C10: once the app has rendered, the mounted boundaries are exactly the Wishlist
\* module and the selected known modules.
C10_RenderedIsWishlistPlusSelected ==
    root # "idle" => Rendered = {WishlistKey} \cup (Range(selected) \cap ItemIds)

(***************************************************************************)
(* C11: each of the five remotes gets the override when it is set, else    *)
(* the default of the build mode, and whatever the environment holds (an   *)
(* override set to the empty string included) a configuration that was     *)
(* built registers no remote with an empty endpoint.                       *)
(***************************************************************************)
C11_NoEmptyEndpoint ==
    config.built =>
        \A r \in RemoteNames :
            /\ config.remotes[r][1] = r
            /\ Endpoint(config.remotes[r]) # EmptyString
            /\ Endpoint(config.remotes[r]) =
                   IF processEnv[EnvVar(r)] \notin {Undefined, EmptyString}
                   THEN processEnv[EnvVar(r)]
                   ELSE IF argv.mode = "production" THEN ProdUrl(r) ELSE DevUrl(r)

\* what the handle of module k went through: a load state never goes back
LoadStateStep(k) ==
    /\ lazy[k].status = "uninitialized" =>
          \/ lazy'[k] = lazy[k] /\ loads'[k] = 0
          \/ /\ lazy'[k].status = "pending"
             /\ loads'[k] = 1
             /\ ~boundary[k].mounted
             /\ ShowsNext(k) = "loader"
    /\ lazy[k].status = "pending" =>
          /\ lazy'[k].status \in {"pending", "resolved", "rejected"}
          /\ loads'[k] = loads[k]
    /\ lazy[k].status \in {"resolved", "rejected"} =>
          /\ lazy'[k] = lazy[k]
          /\ loads'[k] = loads[k]

(***************************************************************************)
(* C12: creating the lazy handles starts no load; the first render of a    *)
(* module starts exactly one load, the handle leaves pending once, to      *)
(* resolved or to rejected, and never changes afterwards; and while it is  *)
(* pending only that module's section shows the loader: a section shows    *)
(* the loader exactly when its own boundary is healthy and its own handle  *)
(* is pending, whatever the other handles are doing.                       *)
(***************************************************************************)
C12_LazyLoadOnce ==
    /\ [](\A k \in ModuleKeys :
            /\ root = "idle" => lazy[k] = Uninitialized
            /\ loads[k] = IF lazy[k].status = "uninitialized" THEN 0 ELSE 1
            /\ ShowsNow(k) = "loader" <=>
                   /\ boundary[k].mounted
                   /\ boundary[k].error = NoError
                   /\ lazy[k].status = "pending"
            /\ (boundary[k].mounted /\ boundary[k].error = NoError
                    /\ lazy[k].status = "resolved") => ShowsNow(k) = "content")
    /\ [][\A k \in ModuleKeys : LoadStateStep(k)]_vars

\* one section waits on its load while another shows its content and a third
\* handle has already failed
C12_Witness ==
    \E k, j, i \in ModuleKeys :
        /\ ShowsNow(k) = "loader"
        /\ loads[k] = 1
        /\ ShowsNow(j) = "content"
        /\ lazy[i].status = "rejected"
        /\ root = "mounted"

====
